---- MODULE Spec2Model ----
(***************************************************************************)
(* The try-on session of the storefront: the TryOnClient component, the    *)
(* ImageUploader widget it renders, the validateImage call and the         *)
(* generateAiTryOn server action with its dispatch on the selected model.  *)
(***************************************************************************)
EXTENDS Integers, Sequences, FiniteSets, TLC

(* ------------------------------------------------------------------ *)
(* Bounds of the exploration                                          *)
(* ------------------------------------------------------------------ *)

\* validateImage calls issued in one session
MaxValidateCalls == 2
\* generateAiTryOn calls issued in one session
MaxGenerateCalls == 2
\* file reads (FileReader.readAsDataURL) pending at the same time
MaxPendingReads == 1

(* ------------------------------------------------------------------ *)
(* Values                                                             *)
(* ------------------------------------------------------------------ *)

\* null / undefined, and a present value: string | null is Null or Some(s)
Null == <<>>
Some(v) == <<v>>

\* JavaScript truthiness of a string | null: neither null nor ''
Truthy(s) == s # Null /\ s[1] # ""

MaxFileSizeMB == 5
MaxFileSizeBytes == MaxFileSizeMB * 1024 * 1024

FlashModel == "googleai/gemini-2.0-flash"
ModelIds == {FlashModel, "imagen3", "imagen4"}
FlashModelId == "googleai/gemini-2.0-flash-preview-image-generation"
TryOnPromptText == "tryOnPromptText"

(* ------------------------------------------------------------------ *)
(* Catalog                                                            *)
(* ------------------------------------------------------------------ *)

\* a catalog whose second entry was copied from the first and kept its id
products_CopiedEntry ==
    << [id |-> "m-cloth-1", name |-> "Classic Denim Jacket", gender |-> "men", type |-> "clothing",
        imageUrl |-> "https://images.unsplash.com/photo-1611312449412",
        description |-> "A timeless denim jacket for a rugged look.",
        price |-> "$79.99"],
       [id |-> "m-cloth-1", name |-> "Tailored Chinos", gender |-> "men", type |-> "clothing",
        imageUrl |-> "https://images.unsplash.com/photo-1584865288642",
        description |-> "Versatile chinos for smart-casual occasions.",
        price |-> "$59.99"],
       [id |-> "m-cloth-3", name |-> "Graphic Print T-Shirt", gender |-> "men", type |-> "clothing",
        imageUrl |-> "https://images.unsplash.com/photo-1583743814966",
        description |-> "Comfortable cotton t-shirt with a cool graphic.",
        price |-> "$29.99"],
       [id |-> "m-jewel-1", name |-> "Silver Link Bracelet", gender |-> "men", type |-> "jewelry",
        imageUrl |-> "https://images.unsplash.com/photo-1611085725151",
        description |-> "Sleek silver bracelet to complement any outfit.",
        price |-> "$120.00"],
       [id |-> "m-jewel-2", name |-> "Minimalist Steel Ring", gender |-> "men", type |-> "jewelry",
        imageUrl |-> "https://images.unsplash.com/photo-1627292934211",
        description |-> "A subtle yet stylish steel ring.",
        price |-> "$45.00"],
       [id |-> "w-cloth-1", name |-> "Floral Maxi Dress", gender |-> "women", type |-> "clothing",
        imageUrl |-> "https://images.unsplash.com/photo-1594633312681",
        description |-> "Elegant floral maxi dress for sunny days.",
        price |-> "$89.99"],
       [id |-> "w-cloth-2", name |-> "High-Waisted Jeans", gender |-> "women", type |-> "clothing",
        imageUrl |-> "https://images.unsplash.com/photo-1541099649105",
        description |-> "Flattering high-waisted jeans for a modern silhouette.",
        price |-> "$69.99"],
       [id |-> "w-cloth-3", name |-> "Silk Blouse", gender |-> "women", type |-> "clothing",
        imageUrl |-> "https://images.unsplash.com/photo-1623635304894",
        description |-> "Luxurious silk blouse for a touch of sophistication.",
        price |-> "$99.99"],
       [id |-> "w-jewel-1", name |-> "Pearl Drop Earrings", gender |-> "women", type |-> "jewelry",
        imageUrl |-> "https://images.unsplash.com/photo-1588444968368",
        description |-> "Classic pearl drop earrings for timeless elegance.",
        price |-> "$75.00"],
       [id |-> "w-jewel-2", name |-> "Gold Pendant Necklace", gender |-> "women", type |-> "jewelry",
        imageUrl |-> "https://images.unsplash.com/photo-1617038220319",
        description |-> "Delicate gold pendant necklace, perfect for layering.",
        price |-> "$150.00"],
       [id |-> "u-cloth-1", name |-> "Basic Hoodie", gender |-> "unisex", type |-> "clothing",
        imageUrl |-> "https://images.unsplash.com/photo-1556821840",
        description |-> "Comfortable and versatile basic hoodie.",
        price |-> "$49.99"],
       [id |-> "u-jewel-1", name |-> "Leather Cord Necklace", gender |-> "unisex", type |-> "jewelry",
        imageUrl |-> "https://images.unsplash.com/photo-1508909397440",
        description |-> "Simple leather cord necklace for a casual style.",
        price |-> "$30.00"] >>

\* const products: Product[]
products ==
    << [id |-> "m-cloth-1", name |-> "Classic Denim Jacket", gender |-> "men", type |-> "clothing",
        imageUrl |-> "https://images.unsplash.com/photo-1611312449412",
        description |-> "A timeless denim jacket for a rugged look.",
        price |-> "$79.99"],
       [id |-> "m-cloth-2", name |-> "Tailored Chinos", gender |-> "men", type |-> "clothing",
        imageUrl |-> "https://images.unsplash.com/photo-1584865288642",
        description |-> "Versatile chinos for smart-casual occasions.",
        price |-> "$59.99"],
       [id |-> "m-cloth-3", name |-> "Graphic Print T-Shirt", gender |-> "men", type |-> "clothing",
        imageUrl |-> "https://images.unsplash.com/photo-1583743814966",
        description |-> "Comfortable cotton t-shirt with a cool graphic.",
        price |-> "$29.99"],
       [id |-> "m-jewel-1", name |-> "Silver Link Bracelet", gender |-> "men", type |-> "jewelry",
        imageUrl |-> "https://images.unsplash.com/photo-1611085725151",
        description |-> "Sleek silver bracelet to complement any outfit.",
        price |-> "$120.00"],
       [id |-> "m-jewel-2", name |-> "Minimalist Steel Ring", gender |-> "men", type |-> "jewelry",
        imageUrl |-> "https://images.unsplash.com/photo-1627292934211",
        description |-> "A subtle yet stylish steel ring.",
        price |-> "$45.00"],
       [id |-> "w-cloth-1", name |-> "Floral Maxi Dress", gender |-> "women", type |-> "clothing",
        imageUrl |-> "https://images.unsplash.com/photo-1594633312681",
        description |-> "Elegant floral maxi dress for sunny days.",
        price |-> "$89.99"],
       [id |-> "w-cloth-2", name |-> "High-Waisted Jeans", gender |-> "women", type |-> "clothing",
        imageUrl |-> "https://images.unsplash.com/photo-1541099649105",
        description |-> "Flattering high-waisted jeans for a modern silhouette.",
        price |-> "$69.99"],
       [id |-> "w-cloth-3", name |-> "Silk Blouse", gender |-> "women", type |-> "clothing",
        imageUrl |-> "https://images.unsplash.com/photo-1623635304894",
        description |-> "Luxurious silk blouse for a touch of sophistication.",
        price |-> "$99.99"],
       [id |-> "w-jewel-1", name |-> "Pearl Drop Earrings", gender |-> "women", type |-> "jewelry",
        imageUrl |-> "https://images.unsplash.com/photo-1588444968368",
        description |-> "Classic pearl drop earrings for timeless elegance.",
        price |-> "$75.00"],
       [id |-> "w-jewel-2", name |-> "Gold Pendant Necklace", gender |-> "women", type |-> "jewelry",
        imageUrl |-> "https://images.unsplash.com/photo-1617038220319",
        description |-> "Delicate gold pendant necklace, perfect for layering.",
        price |-> "$150.00"],
       [id |-> "u-cloth-1", name |-> "Basic Hoodie", gender |-> "unisex", type |-> "clothing",
        imageUrl |-> "https://images.unsplash.com/photo-1556821840",
        description |-> "Comfortable and versatile basic hoodie.",
        price |-> "$49.99"],
       [id |-> "u-jewel-1", name |-> "Leather Cord Necklace", gender |-> "unisex", type |-> "jewelry",
        imageUrl |-> "https://images.unsplash.com/photo-1508909397440",
        description |-> "Simple leather cord necklace for a casual style.",
        price |-> "$30.00"] >>

\* a filter that forgets the items for everyone
getProducts_NoUnisex(genderFilter) ==
    IF ~Truthy(genderFilter) \/ genderFilter = Some("all") THEN products
    ELSE SelectSeq(products, LAMBDA p : p.gender = genderFilter[1])

\* getProducts(genderFilter?): genderFilter is Null when the argument is absent
getProducts(genderFilter) ==
    IF ~Truthy(genderFilter) \/ genderFilter = Some("all") THEN products
    ELSE SelectSeq(products, LAMBDA p : p.gender = genderFilter[1] \/ p.gender = "unisex")

\* a lookup that falls back to the first item of the catalog
getProductById_FirstWhenMissing(id) ==
    LET hits == {i \in 1..Len(products) : products[i].id = id}
    IN  IF hits = {} THEN Some(products[1])
        ELSE Some(products[CHOOSE i \in hits : \A j \in hits : i <= j])

\* products.find(p => p.id === id): the first match, or undefined
getProductById(id) ==
    LET hits == {i \in 1..Len(products) : products[i].id = id}
    IN  IF hits = {} THEN Null
        ELSE Some(products[CHOOSE i \in hits : \A j \in hits : i <= j])

\* the items whose try-on page the session is opened on
RouteItemIds == {"m-cloth-1"}

(* ------------------------------------------------------------------ *)
(* Files the user can pick                                            *)
(* ------------------------------------------------------------------ *)

\* a media type the picker offers (accept="image/png, image/jpeg, image/gif")
\* and one it does not
PngType == [major |-> "image", sub |-> "png"]
PdfType == [major |-> "application", sub |-> "pdf"]

\* two images that pass both checks, one of them of exactly the ceiling; an
\* image and a document one byte over the ceiling; a document under it
Files ==
    { [name |-> "photo1.png", size |-> MaxFileSizeBytes,     type |-> PngType],
      [name |-> "photo2.png", size |-> 1024,                 type |-> PngType],
      [name |-> "poster.png", size |-> MaxFileSizeBytes + 1, type |-> PngType],
      [name |-> "scan.pdf",   size |-> MaxFileSizeBytes + 1, type |-> PdfType],
      [name |-> "notes.pdf",  size |-> 1024,                 type |-> PdfType] }

\* a type check that only asks for a media type to be there
IsImageType_AnyType(t) == t.major # ""

\* file.type.startsWith('image/')
IsImageType(t) == t.major = "image"

\* FileReader.readAsDataURL: data:<media type>;base64,<encoded bytes>
DataUrlOf(file) ==
    "data:" \o file.type.major \o "/" \o file.type.sub \o ";base64," \o "B64-" \o file.name

(* ------------------------------------------------------------------ *)
(* State                                                              *)
(* ------------------------------------------------------------------ *)

VARIABLES
    path,                 \* the segments of the URL the router is at
    page,                 \* the page the router renders for it
    grid,                 \* ProductCollectionPage: clothingItems and jewelryItems
    tab,                  \* ProductCollectionPage: the tab that is open
    lastCall,             \* the latest call of getProducts or getProductById
    product,              \* TryOnClient prop
    userImage,            \* useState<string | null>
    validationResult,     \* useState<ValidateImageOutput | null>
    selectedModel,        \* useState<string>
    generatedImage,       \* useState<string | null>
    isLoadingValidation,  \* useState(false)
    isLoadingGeneration,  \* useState(false)
    error,                \* useState<string | null>
    previewUrl,           \* ImageUploader useState<string | null>
    fileName,             \* ImageUploader useState<string | null>
    fileInputValue,       \* input 'user-image-upload': its value, '' or a path
    pendingReads,         \* FileReader reads whose onloadend has not run yet
    validations,          \* validateImage calls awaited by handleValidateImage
    generations,          \* generateAiTryOn calls awaited by handleGenerateTryOn
    validateCalls,        \* number of validateImage calls issued
    generateCalls,        \* number of generateAiTryOn calls issued
    aiGenerateCalls,      \* number of ai.generate calls issued by generateAiTryOn
    lastEvent             \* the step taken last and the toast it raised

sessionVars == <<userImage, validationResult, selectedModel, generatedImage,
                 isLoadingValidation, isLoadingGeneration, error>>
widgetVars == <<previewUrl, fileName, fileInputValue, pendingReads>>
callVars == <<validations, generations, validateCalls, generateCalls, aiGenerateCalls>>
\* the router and what the pages outside the session hold
pageVars == <<path, page, grid, tab, lastCall, product>>
vars == <<pageVars, sessionVars, widgetVars, callVars, lastEvent>>

\* a step: the handler or callback that ran, the toast it raised ("" for none)
\* and, for a step that takes an answer from outside, that answer
EventWith(op, toast, arg) == [op |-> op, toast |-> toast, arg |-> arg]
Event(op, toast) == EventWith(op, toast, Null)

\* validationResult?.isValid
IsValid(vr) == vr # Null /\ vr[1].isValid

\* the error view replaces the page
ErrorView == Truthy(error) /\ ~isLoadingValidation /\ ~isLoadingGeneration

\* a disabling condition that forgets the validation result
isTryOnDisabled_NoValidation == isLoadingGeneration \/ ~Truthy(userImage)

isTryOnDisabled == isLoadingGeneration \/ ~IsValid(validationResult) \/ ~Truthy(userImage)

\* a Validate button that stays clickable while a validation is awaited
ValidateEnabled_WhileLoading == ~ErrorView /\ Truthy(userImage)

\* the Validate button is rendered and not disabled
ValidateEnabled == ~ErrorView /\ Truthy(userImage) /\ ~(isLoadingValidation \/ ~Truthy(userImage))

\* the image in the 'AI Try-On Result' pane, if one is shown
DisplayedResult ==
    IF ~ErrorView /\ Truthy(generatedImage) /\ ~isLoadingGeneration THEN generatedImage ELSE Null

\* the Try-On button is rendered and not disabled
TryOnEnabled == ~ErrorView /\ ~isTryOnDisabled

\* a selector that can still be changed while a generation is awaited
ModelSelectorEnabled_WhileGenerating ==
    ~ErrorView /\ ~(~IsValid(validationResult) \/ ~Truthy(userImage))

\* the ModelSelector is rendered and not disabled
ModelSelectorEnabled ==
    ~ErrorView /\ ~(~IsValid(validationResult) \/ ~Truthy(userImage) \/ isLoadingGeneration)

\* a call of one of the two catalog functions, with what it returned
Call(fn, arg, result) == [fn |-> fn, arg |-> arg, result |-> result]
NoCall == Call("none", Null, <<>>)

\* the collection page's two lists when that page is not rendered
NoGrid == [clothing |-> <<>>, jewelry |-> <<>>]

\* TryOnClient as TryOnPage mounts it: every useState at its initial value
SessionInit ==
    /\ userImage = Null
    /\ validationResult = Null
    /\ selectedModel = FlashModel
    /\ generatedImage = Null
    /\ isLoadingValidation = FALSE
    /\ isLoadingGeneration = FALSE
    /\ error = Null
    /\ previewUrl = Null
    /\ fileName = Null
    /\ fileInputValue = ""
    /\ pendingReads = {}
    /\ validations = {}
    /\ generations = {}
    /\ validateCalls = 0
    /\ generateCalls = 0
    /\ aiGenerateCalls = 0

\* the session on the try-on page of one item, reached from the men's collection
Init ==
    /\ \E id \in RouteItemIds :
          /\ path = <<"men", id>>
          /\ lastCall = Call("getProductById", Some(id), getProductById(id))
          /\ product = getProductById(id)[1]
    /\ page = "tryOn"
    /\ grid = NoGrid
    /\ tab = "clothing"
    /\ SessionInit
    /\ lastEvent = Event("init", "")

(* ------------------------------------------------------------------ *)
(* Rendering: the error view unmounts the ImageUploader               *)
(* ------------------------------------------------------------------ *)

\* the widget's state after the step: an unmounted widget loses it, and the
\* widget mounted again later starts from useState(null)
WidgetStateAfter(v) == IF ErrorView' THEN Null ELSE v

\* the input element goes with the widget: the one mounted later is empty
InputValueAfter(v) == IF ErrorView' THEN "" ELSE v

\* a read started by a widget that is unmounted by the step can no longer
\* set that widget's state; its onloadend still calls onImageUpload
ReadsAfter(rs) == IF ErrorView' THEN {[r EXCEPT !.mounted = FALSE] : r \in rs} ELSE rs

(* ------------------------------------------------------------------ *)
(* TryOnClient.handleImageUpload                                      *)
(* ------------------------------------------------------------------ *)

\* an upload handler that leaves the generated image on the page
handleImageUpload_KeepsGenerated(dataUrl) ==
    /\ userImage' = dataUrl
    /\ validationResult' = Null
    /\ generatedImage' = generatedImage
    /\ UNCHANGED <<selectedModel, isLoadingValidation, isLoadingGeneration, error>>

handleImageUpload(dataUrl) ==
    /\ userImage' = dataUrl
    /\ validationResult' = Null
    /\ generatedImage' = Null
    /\ UNCHANGED <<selectedModel, isLoadingValidation, isLoadingGeneration, error>>

(* ------------------------------------------------------------------ *)
(* ImageUploader                                                      *)
(* ------------------------------------------------------------------ *)

\* what the browser gives the input as value once a file is chosen; the code
\* never reads the value and only ever writes '' to it, so the file's name
\* is left out of it
ChosenFilePath == "C:\\fakepath\\"

\* a size check that also refuses a file of exactly the ceiling
FileTooLarge_AtCeiling(file) == file.size >= MaxFileSizeBytes

\* file.size > maxFileSizeMB * 1024 * 1024
FileTooLarge(file) == file.size > MaxFileSizeBytes

\* handleFileChange while fewer than limit reads are pending
HandleFileChangeWithin(file, limit) ==
    /\ ~ErrorView
    /\ fileInputValue' = ChosenFilePath
    /\ IF FileTooLarge(file)
       THEN /\ lastEvent' = EventWith("handleFileChange", "File too large", Some(file))
            /\ UNCHANGED <<sessionVars, previewUrl, fileName, pendingReads>>
       ELSE IF ~IsImageType(file.type)
       THEN /\ lastEvent' = EventWith("handleFileChange", "Invalid file type", Some(file))
            /\ UNCHANGED <<sessionVars, previewUrl, fileName, pendingReads>>
       ELSE /\ Cardinality(pendingReads) < limit
            /\ fileName' = Some(file.name)
            /\ pendingReads' = pendingReads \cup {[file |-> file, mounted |-> TRUE]}
            /\ lastEvent' = EventWith("handleFileChange", "", Some(file))
            /\ UNCHANGED <<sessionVars, previewUrl>>
    /\ UNCHANGED <<pageVars, callVars>>

HandleFileChange(file) == HandleFileChangeWithin(file, MaxPendingReads)

\* reader.onloadend: reader.result is the data URL, or null when the read failed
ReadCompletes(r, loaded) ==
    /\ r \in pendingReads
    /\ LET dataUrl == IF loaded THEN Some(DataUrlOf(r.file)) ELSE Null
       IN  /\ handleImageUpload(dataUrl)
           /\ previewUrl' = IF r.mounted THEN dataUrl ELSE previewUrl
    /\ pendingReads' = pendingReads \ {r}
    /\ lastEvent' = Event(IF loaded THEN "onloadend" ELSE "onloadendFailed", "")
    /\ UNCHANGED <<pageVars, fileName, fileInputValue, callVars>>

\* a removal that leaves the chosen file in the input
HandleRemoveImage_KeepsInputValue ==
    /\ ~ErrorView
    /\ previewUrl # Null
    /\ previewUrl' = Null
    /\ fileName' = Null
    /\ handleImageUpload(Some(""))
    /\ fileInputValue' = fileInputValue
    /\ lastEvent' = Event("handleRemoveImage", "")
    /\ UNCHANGED <<pageVars, pendingReads, callVars>>

HandleRemoveImage ==
    /\ ~ErrorView
    /\ previewUrl # Null
    /\ previewUrl' = Null
    /\ fileName' = Null
    /\ handleImageUpload(Some(""))
    /\ fileInputValue' = ""
    /\ lastEvent' = Event("handleRemoveImage", "")
    /\ UNCHANGED <<pageVars, pendingReads, callVars>>

(* ------------------------------------------------------------------ *)
(* TryOnClient.handleValidateImage                                    *)
(* ------------------------------------------------------------------ *)

\* the outcomes of await validateImage({photoDataUri})
ValidateImageOutcomes ==
    { [throws |-> FALSE, message |-> "",
       result |-> [isValid |-> TRUE, reason |-> "Looks good.", suggestions |-> ""]],
      [throws |-> FALSE, message |-> "",
       result |-> [isValid |-> FALSE, reason |-> "No clear face.", suggestions |-> "Face the camera."]],
      [throws |-> TRUE, message |-> "validateImage call failed",
       result |-> [isValid |-> FALSE, reason |-> "", suggestions |-> ""]] }

SyntheticNegativeResult ==
    [isValid |-> FALSE, reason |-> "An error occurred during validation.",
     suggestions |-> "Please try again or use a different image."]

\* a handler that leaves the previous error in place when it starts a call
handleValidateImage_KeepsError ==
    IF ~Truthy(userImage)
    THEN /\ lastEvent' = Event("handleValidateImage", "No Image")
         /\ UNCHANGED <<sessionVars, widgetVars, callVars>>
    ELSE /\ isLoadingValidation' = TRUE
         /\ validationResult' = Null
         /\ error' = error
         /\ validateCalls' = validateCalls + 1
         /\ validations' = validations \cup
                {[id |-> validateCalls + 1, photoDataUri |-> userImage[1]]}
         /\ lastEvent' = Event("handleValidateImage", "")
         /\ UNCHANGED <<userImage, selectedModel, generatedImage, isLoadingGeneration,
                        widgetVars, generations, generateCalls, aiGenerateCalls>>

\* the handler up to its await
handleValidateImage ==
    IF ~Truthy(userImage)
    THEN /\ lastEvent' = Event("handleValidateImage", "No Image")
         /\ UNCHANGED <<sessionVars, widgetVars, callVars>>
    ELSE /\ isLoadingValidation' = TRUE
         /\ validationResult' = Null
         /\ error' = Null
         /\ validateCalls' = validateCalls + 1
         /\ validations' = validations \cup
                {[id |-> validateCalls + 1, photoDataUri |-> userImage[1]]}
         /\ lastEvent' = Event("handleValidateImage", "")
         /\ UNCHANGED <<userImage, selectedModel, generatedImage, isLoadingGeneration,
                        widgetVars, generations, generateCalls, aiGenerateCalls>>

\* the Validate button is clicked, in a session of at most limit validations
ClickValidateWithin(limit) ==
    /\ ValidateEnabled
    /\ validateCalls < limit
    /\ handleValidateImage
    /\ UNCHANGED pageVars

ClickValidate == ClickValidateWithin(MaxValidateCalls)

\* a catch block that keeps the previous validation result
ValidationSettles_KeepResult(v, outcome) ==
    /\ v \in validations
    /\ validations' = validations \ {v}
    /\ IF ~outcome.throws
       THEN /\ validationResult' = Some(outcome.result)
            /\ error' = error
            /\ lastEvent' = EventWith("validateImageReturned",
                                      IF outcome.result.isValid THEN "Image Validated"
                                      ELSE "Image Validation Failed", Some(v.id))
       ELSE /\ error' = Some(outcome.message)
            /\ validationResult' = validationResult
            /\ lastEvent' = EventWith("validateImageThrew", "Validation Error", Some(v.id))
    /\ isLoadingValidation' = FALSE
    /\ UNCHANGED <<userImage, selectedModel, generatedImage, isLoadingGeneration>>
    /\ previewUrl' = WidgetStateAfter(previewUrl)
    /\ fileName' = WidgetStateAfter(fileName)
    /\ fileInputValue' = InputValueAfter(fileInputValue)
    /\ pendingReads' = ReadsAfter(pendingReads)
    /\ UNCHANGED <<pageVars, generations, validateCalls, generateCalls, aiGenerateCalls>>

\* a handler that resets its loading flag at the end of the try block only
ValidationSettles_NoFinally(v, outcome) ==
    /\ v \in validations
    /\ validations' = validations \ {v}
    /\ IF ~outcome.throws
       THEN /\ validationResult' = Some(outcome.result)
            /\ error' = error
            /\ lastEvent' = EventWith("validateImageReturned",
                                      IF outcome.result.isValid THEN "Image Validated"
                                      ELSE "Image Validation Failed", Some(v.id))
       ELSE /\ error' = Some(outcome.message)
            /\ validationResult' = Some(SyntheticNegativeResult)
            /\ lastEvent' = EventWith("validateImageThrew", "Validation Error", Some(v.id))
    /\ isLoadingValidation' = outcome.throws
    /\ UNCHANGED <<userImage, selectedModel, generatedImage, isLoadingGeneration>>
    /\ previewUrl' = WidgetStateAfter(previewUrl)
    /\ fileName' = WidgetStateAfter(fileName)
    /\ fileInputValue' = InputValueAfter(fileInputValue)
    /\ pendingReads' = ReadsAfter(pendingReads)
    /\ UNCHANGED <<pageVars, generations, validateCalls, generateCalls, aiGenerateCalls>>

\* the handler from its await on: try, catch, finally
ValidationSettles(v, outcome) ==
    /\ v \in validations
    /\ validations' = validations \ {v}
    /\ IF ~outcome.throws
       THEN /\ validationResult' = Some(outcome.result)
            /\ error' = error
            /\ lastEvent' = EventWith("validateImageReturned",
                                      IF outcome.result.isValid THEN "Image Validated"
                                      ELSE "Image Validation Failed", Some(v.id))
       ELSE /\ error' = Some(outcome.message)
            /\ validationResult' = Some(SyntheticNegativeResult)
            /\ lastEvent' = EventWith("validateImageThrew", "Validation Error", Some(v.id))
    /\ isLoadingValidation' = FALSE
    /\ UNCHANGED <<userImage, selectedModel, generatedImage, isLoadingGeneration>>
    /\ previewUrl' = WidgetStateAfter(previewUrl)
    /\ fileName' = WidgetStateAfter(fileName)
    /\ fileInputValue' = InputValueAfter(fileInputValue)
    /\ pendingReads' = ReadsAfter(pendingReads)
    /\ UNCHANGED <<pageVars, generations, validateCalls, generateCalls, aiGenerateCalls>>

(* ------------------------------------------------------------------ *)
(* generateAiTryOn (server action)                                    *)
(* ------------------------------------------------------------------ *)

\* an Error thrown, and a value returned, by generateAiTryOn
Rejected(message) == [ok |-> FALSE, message |-> message, generatedImage |-> ""]
Resolved(url) == [ok |-> TRUE, message |-> "", generatedImage |-> url]

ImagenNotSupportedMessage(model) ==
    "The selected Imagen model (" \o model \o ") is not supported for this virtual try-on task with the current SDK method (generateContent). Please use Gemini Flash instead."

UnknownModelMessage(model) ==
    "The selected AI model (" \o model \o ") is not supported for try-on generation."

NoImageDataMessage ==
    "AI.generate with model " \o FlashModelId \o " did not return image data in the expected format."

WrappedMessage(cause) == "Failed to generate image with " \o FlashModelId \o ": " \o cause

\* a prompt with the two images in the other order
GenerationParams_ItemFirst(input) ==
    [model |-> FlashModelId,
     prompt |-> << [media |-> input.itemImage],
                   [media |-> input.userImage],
                   [text |-> TryOnPromptText] >>,
     responseModalities |-> <<"TEXT", "IMAGE">>]

\* generationParams of the flash branch
GenerationParams(input) ==
    [model |-> FlashModelId,
     prompt |-> << [media |-> input.userImage],
                   [media |-> input.itemImage],
                   [text |-> TryOnPromptText] >>,
     responseModalities |-> <<"TEXT", "IMAGE">>]

\* what ai.generate can answer to the call of request n: media with a url,
\* media without a url, no media (text only), or a thrown transport error
GeneratedUrl(n) == "data:image/png;base64,GEN-" \o ToString(n)
AiGenerateResponses(n) ==
    { [throws |-> FALSE, message |-> "", media |-> Some([url |-> Some(GeneratedUrl(n))])],
      [throws |-> FALSE, message |-> "", media |-> Some([url |-> Null])],
      [throws |-> FALSE, message |-> "", media |-> Null],
      [throws |-> TRUE, message |-> "fetch failed", media |-> Null] }

\* a missing image reported outside the try block: its error is not wrapped
FlashOutcome_Unwrapped(resp) ==
    IF resp.throws THEN Rejected(WrappedMessage(resp.message))
    ELSE IF resp.media = Null \/ ~Truthy(resp.media[1].url)
         THEN Rejected(NoImageDataMessage)
         ELSE Resolved(resp.media[1].url[1])

\* the try block of the flash branch after ai.generate has answered
FlashOutcome(resp) ==
    IF resp.throws THEN Rejected(WrappedMessage(resp.message))
    ELSE IF resp.media = Null \/ ~Truthy(resp.media[1].url)
         THEN Rejected(WrappedMessage(NoImageDataMessage))
         ELSE Resolved(resp.media[1].url[1])

\* a dispatch that sends the Imagen selectors down the flash path
Dispatch_ImagenViaFlash(model) ==
    IF model = "imagen3" \/ model = "imagen4" \/ model = FlashModel THEN "flash"
    ELSE "unknown"

\* which branch of the dispatch a model selector takes
Dispatch(model) ==
    IF model = "imagen3" \/ model = "imagen4" THEN "notSupported"
    ELSE IF model = FlashModel THEN "flash"
    ELSE "unknown"

\* the client SDKs the module imports: ai of '@/ai/genkit' and
\* GoogleGenerativeAI of '@google/generative-ai'; NoClient for a run that
\* reaches no external service
GenkitClient == "ai.generate"
SecondSdkClient == "GoogleGenerativeAI.generateContent"
NoClient == "none"

\* a dispatch whose Imagen branch returns _callImagen3WithSDK(...), the call
\* the code leaves commented out
GenerateAiTryOn_ImagenViaSdk(input) ==
    LET branch == Dispatch(input.model)
    IN  IF branch = "flash"
        THEN [stage |-> "aiGenerate", client |-> GenkitClient,
              call |-> Some(GenerationParams(input)), outcome |-> Null]
        ELSE IF branch = "notSupported"
        THEN [stage |-> "thrown", client |-> SecondSdkClient, call |-> Null,
              outcome |-> Some(Rejected("Failed to generate image with Imagen 3 SDK: "))]
        ELSE [stage |-> "thrown", client |-> NoClient, call |-> Null,
              outcome |-> Some(Rejected(UnknownModelMessage(input.model)))]

\* the function from its entry to its await of ai.generate, or to its throw:
\* the client it reaches, the call it has issued, if any, and the error it has
\* thrown, if any
GenerateAiTryOn(input) ==
    LET branch == Dispatch(input.model)
    IN  IF branch = "flash"
        THEN [stage |-> "aiGenerate", client |-> GenkitClient,
              call |-> Some(GenerationParams(input)), outcome |-> Null]
        ELSE [stage |-> "thrown", client |-> NoClient, call |-> Null,
              outcome |-> Some(Rejected(IF branch = "notSupported"
                                        THEN ImagenNotSupportedMessage(input.model)
                                        ELSE UnknownModelMessage(input.model)))]

\* the external calls one run of the function issues
ExternalCallsOf(pending) == IF pending.call = Null THEN 0 ELSE 1

(* ------------------------------------------------------------------ *)
(* TryOnClient.handleGenerateTryOn                                    *)
(* ------------------------------------------------------------------ *)

\* a first check that forgets the validation result
GenerateGuard_NoValidation == ~(~Truthy(userImage) \/ product = Null)

\* the handler goes on past its first check
GenerateGuard == ~(~Truthy(userImage) \/ product = Null \/ ~IsValid(validationResult))

\* a handler that does not clear the previous result when a request starts
handleGenerateTryOn_KeepsImage ==
    IF ~GenerateGuard
    THEN /\ lastEvent' = Event("handleGenerateTryOn", "Cannot Generate")
         /\ UNCHANGED <<sessionVars, widgetVars, callVars>>
    ELSE LET input == [userImage |-> userImage[1],
                       itemImage |-> product.imageUrl,
                       model |-> selectedModel]
             pending == GenerateAiTryOn(input)
         IN  /\ isLoadingGeneration' = TRUE
             /\ generatedImage' = generatedImage
             /\ error' = Null
             /\ generateCalls' = generateCalls + 1
             /\ aiGenerateCalls' = aiGenerateCalls + ExternalCallsOf(pending)
             /\ generations' = generations \cup
                    {[id |-> generateCalls + 1, input |-> input, stage |-> pending.stage,
                      client |-> pending.client, call |-> pending.call,
                      outcome |-> pending.outcome]}
             /\ lastEvent' = Event("handleGenerateTryOn", "")
             /\ UNCHANGED <<userImage, validationResult, selectedModel, isLoadingValidation,
                            widgetVars, validations, validateCalls>>

\* the handler up to its await
handleGenerateTryOn ==
    IF ~GenerateGuard
    THEN /\ lastEvent' = Event("handleGenerateTryOn", "Cannot Generate")
         /\ UNCHANGED <<sessionVars, widgetVars, callVars>>
    ELSE LET input == [userImage |-> userImage[1],
                       itemImage |-> product.imageUrl,
                       model |-> selectedModel]
             pending == GenerateAiTryOn(input)
         IN  /\ isLoadingGeneration' = TRUE
             /\ generatedImage' = Null
             /\ error' = Null
             /\ generateCalls' = generateCalls + 1
             /\ aiGenerateCalls' = aiGenerateCalls + ExternalCallsOf(pending)
             /\ generations' = generations \cup
                    {[id |-> generateCalls + 1, input |-> input, stage |-> pending.stage,
                      client |-> pending.client, call |-> pending.call,
                      outcome |-> pending.outcome]}
             /\ lastEvent' = Event("handleGenerateTryOn", "")
             /\ UNCHANGED <<userImage, validationResult, selectedModel, isLoadingValidation,
                            widgetVars, validations, validateCalls>>

ClickTryOn ==
    /\ TryOnEnabled
    /\ generateCalls < MaxGenerateCalls
    /\ handleGenerateTryOn
    /\ UNCHANGED pageVars

\* the handler entered while no image is uploaded or the image is not
\* validated (the button is disabled there; the handler checks again itself)
CallTryOnUnvalidated ==
    /\ ~ErrorView
    /\ ~Truthy(userImage) \/ ~IsValid(validationResult)
    /\ generateCalls < MaxGenerateCalls
    /\ handleGenerateTryOn
    /\ UNCHANGED pageVars

\* a continuation that shows a first result and never replaces it
GenerationSettles_KeepsFirst(g, outcome, answer) ==
    /\ generations' = generations \ {g}
    /\ IF outcome.ok
       THEN /\ generatedImage' = Some(GeneratedUrl(1))
            /\ error' = error
            /\ lastEvent' = EventWith("generateAiTryOnReturned", "Try-On Complete!", answer)
       ELSE /\ error' = Some(outcome.message)
            /\ generatedImage' = generatedImage
            /\ lastEvent' = EventWith("generateAiTryOnThrew", "Generation Error", answer)
    /\ isLoadingGeneration' = FALSE
    /\ UNCHANGED <<userImage, validationResult, selectedModel, isLoadingValidation>>
    /\ previewUrl' = WidgetStateAfter(previewUrl)
    /\ fileName' = WidgetStateAfter(fileName)
    /\ fileInputValue' = InputValueAfter(fileInputValue)
    /\ pendingReads' = ReadsAfter(pendingReads)
    /\ UNCHANGED <<pageVars, validations, validateCalls, generateCalls, aiGenerateCalls>>

\* the handler from its await on: try, catch, finally
GenerationSettles(g, outcome, answer) ==
    /\ generations' = generations \ {g}
    /\ IF outcome.ok
       THEN /\ generatedImage' = Some(outcome.generatedImage)
            /\ error' = error
            /\ lastEvent' = EventWith("generateAiTryOnReturned", "Try-On Complete!", answer)
       ELSE /\ error' = Some(outcome.message)
            /\ generatedImage' = generatedImage
            /\ lastEvent' = EventWith("generateAiTryOnThrew", "Generation Error", answer)
    /\ isLoadingGeneration' = FALSE
    /\ UNCHANGED <<userImage, validationResult, selectedModel, isLoadingValidation>>
    /\ previewUrl' = WidgetStateAfter(previewUrl)
    /\ fileName' = WidgetStateAfter(fileName)
    /\ fileInputValue' = InputValueAfter(fileInputValue)
    /\ pendingReads' = ReadsAfter(pendingReads)
    /\ UNCHANGED <<pageVars, validations, validateCalls, generateCalls, aiGenerateCalls>>

\* a flash branch that calls ai.generate again when the call has thrown
AiGenerateAnswers_Retry(g, resp) ==
    /\ g \in generations
    /\ g.stage = "aiGenerate"
    /\ IF resp.throws /\ aiGenerateCalls <= generateCalls
       THEN /\ aiGenerateCalls' = aiGenerateCalls + 1
            /\ lastEvent' = Event("aiGenerateRetry", "")
            /\ UNCHANGED <<pageVars, sessionVars, widgetVars, validations, generations,
                           validateCalls, generateCalls>>
       ELSE GenerationSettles(g, FlashOutcome(resp), Some(resp))

\* ai.generate answers, generateAiTryOn returns or throws, the handler goes on
AiGenerateAnswers(g, resp) ==
    /\ g \in generations
    /\ g.stage = "aiGenerate"
    /\ GenerationSettles(g, FlashOutcome(resp), Some(resp))

\* generateAiTryOn has thrown without calling a model, the handler goes on
GenerateAiTryOnThrew(g) ==
    /\ g \in generations
    /\ g.stage = "thrown"
    /\ GenerationSettles(g, g.outcome[1], Null)

(* ------------------------------------------------------------------ *)
(* The error view and the model selector                              *)
(* ------------------------------------------------------------------ *)

\* a 'Try again' that starts the session over
DismissError_Reset ==
    /\ ErrorView
    /\ error' = Null
    /\ userImage' = Null
    /\ validationResult' = Null
    /\ lastEvent' = Event("tryAgain", "")
    /\ UNCHANGED <<pageVars, selectedModel, generatedImage,
                   isLoadingValidation, isLoadingGeneration, widgetVars, callVars>>

\* 'Try again': onClick={() => setError(null)}
DismissError ==
    /\ ErrorView
    /\ error' = Null
    /\ lastEvent' = Event("tryAgain", "")
    /\ UNCHANGED <<pageVars, userImage, validationResult, selectedModel, generatedImage,
                   isLoadingValidation, isLoadingGeneration, widgetVars, callVars>>

\* ModelSelector: onValueChange={setSelectedModel}
SelectModel(m) ==
    /\ ModelSelectorEnabled
    /\ m # selectedModel
    /\ selectedModel' = m
    /\ lastEvent' = Event("onModelChange", "")
    /\ UNCHANGED <<pageVars, userImage, validationResult, generatedImage,
                   isLoadingValidation, isLoadingGeneration, error, widgetVars, callVars>>

(* ------------------------------------------------------------------ *)
(* Specification                                                      *)
(* ------------------------------------------------------------------ *)

Next ==
    \/ \E file \in Files : HandleFileChange(file)
    \/ \E r \in pendingReads, loaded \in BOOLEAN : ReadCompletes(r, loaded)
    \/ HandleRemoveImage
    \/ ClickValidate
    \/ \E v \in validations, outcome \in ValidateImageOutcomes : ValidationSettles(v, outcome)
    \/ ClickTryOn
    \/ CallTryOnUnvalidated
    \/ \E g \in generations : \E resp \in AiGenerateResponses(g.id) : AiGenerateAnswers(g, resp)
    \/ \E g \in generations : GenerateAiTryOnThrew(g)
    \/ DismissError
    \/ \E m \in ModelIds : SelectModel(m)

Spec == Init /\ [][Next]_vars

(* ------------------------------------------------------------------ *)
(* The upload widget on its own: files picked in quick succession     *)
(* ------------------------------------------------------------------ *)

\* files picked while the reads of the earlier ones are still pending
MaxQuickPicks == 2

UploadNext ==
    \/ \E file \in Files : HandleFileChangeWithin(file, MaxQuickPicks)
    \/ \E r \in pendingReads, loaded \in BOOLEAN : ReadCompletes(r, loaded)
    \/ HandleRemoveImage

UploadSpec == Init /\ [][UploadNext]_vars

(* ------------------------------------------------------------------ *)
(* The storefront's pages: chooser, collection page, try-on page      *)
(* ------------------------------------------------------------------ *)

\* genderOptions of the chooser
GenderOptions == {"men", "women", "all"}

\* the first segment of a URL a visitor opens: the linked ones and another
UrlGenders == GenderOptions \cup {"kids"}

\* the second segment: the ids of the catalog and one that is not in it
UrlItemIds == {products[i].id : i \in 1..Len(products)} \cup {"does-not-exist"}

\* /, /<gender> and /<gender>/<itemId>
UrlPaths ==
    {<<>>} \cup {<<g>> : g \in UrlGenders}
           \cup {<<g, id>> : g \in UrlGenders, id \in UrlItemIds}

\* the filters getProducts is called with: absent, or a gender option
GenderFilters == {Null} \cup {Some(g) : g \in GenderOptions}

\* clothingItems and jewelryItems of the collection page
ProductCollectionPage(gender) ==
    LET shown == getProducts(Some(gender))
    IN  [clothing |-> SelectSeq(shown, LAMBDA p : p.type = "clothing"),
         jewelry  |-> SelectSeq(shown, LAMBDA p : p.type = "jewelry")]

\* a card that links to the item's own audience instead of the page's
ProductCardHref_OwnGender(p, genderContext) == <<p.gender, p.id>>

\* ProductCard: href={`/${genderContext}/${product.id}`}
ProductCardHref(p, genderContext) == <<genderContext, p.id>>

\* the items of a list of cards
Items(cards) == {cards[i] : i \in 1..Len(cards)}

\* the router renders the page of a path: HomePage, ProductCollectionPage
\* or TryOnPage (notFound() when the item is absent)
Navigate(to) ==
    /\ path' = to
    /\ tab' = "clothing"
    /\ IF Len(to) = 0
       THEN /\ page' = "home"
            /\ grid' = NoGrid
            /\ product' = Null
            /\ lastCall' = lastCall
       ELSE IF Len(to) = 1
       THEN /\ page' = "collection"
            /\ grid' = ProductCollectionPage(to[1])
            /\ product' = Null
            /\ lastCall' = Call("getProducts", Some(to[1]), getProducts(Some(to[1])))
       ELSE LET found == getProductById(to[2])
            IN  /\ page' = IF found = Null THEN "notFound" ELSE "tryOn"
                /\ grid' = NoGrid
                /\ product' = IF found = Null THEN Null ELSE found[1]
                /\ lastCall' = Call("getProductById", Some(to[2]), found)
    /\ UNCHANGED <<sessionVars, widgetVars, callVars>>

\* GenderSelector.handleSelectGender: router.push(`/${gender}`)
HandleSelectGender(gender) ==
    /\ page = "home"
    /\ Navigate(<<gender>>)
    /\ lastEvent' = EventWith("handleSelectGender", "", Some(gender))

\* a card of the open tab is clicked
ClickProductCard(p) ==
    /\ page = "collection"
    /\ p \in Items(grid[tab])
    /\ Navigate(ProductCardHref(p, path[1]))
    /\ lastEvent' = EventWith("clickProductCard", "", Some(p))

\* the other tab of the collection page is opened
SelectTab(t) ==
    /\ page = "collection"
    /\ t # tab
    /\ tab' = t
    /\ lastEvent' = EventWith("selectTab", "", Some(t))
    /\ UNCHANGED <<path, page, grid, lastCall, product,
                   sessionVars, widgetVars, callVars>>

\* Header: Link href="/"
ClickHeaderLogo ==
    /\ page # "home"
    /\ Navigate(<<>>)
    /\ lastEvent' = Event("clickHeaderLogo", "")

\* a visitor opens a URL of the site
OpenUrl(to) ==
    /\ to # path
    /\ Navigate(to)
    /\ lastEvent' = EventWith("openUrl", "", Some(to))

\* a caller of the catalog module calls getProducts
CallGetProducts(genderFilter) ==
    /\ lastCall' = Call("getProducts", genderFilter, getProducts(genderFilter))
    /\ lastEvent' = Event("getProducts", "")
    /\ UNCHANGED <<path, page, grid, tab, product,
                   sessionVars, widgetVars, callVars>>

\* a caller of the catalog module calls getProductById
CallGetProductById(id) ==
    /\ lastCall' = Call("getProductById", Some(id), getProductById(id))
    /\ lastEvent' = Event("getProductById", "")
    /\ UNCHANGED <<path, page, grid, tab, product,
                   sessionVars, widgetVars, callVars>>

\* the visitor arrives at the chooser
StoreInit ==
    /\ path = <<>>
    /\ page = "home"
    /\ grid = NoGrid
    /\ tab = "clothing"
    /\ lastCall = NoCall
    /\ product = Null
    /\ SessionInit
    /\ lastEvent = Event("init", "")

StoreNext ==
    \/ \E gender \in GenderOptions : HandleSelectGender(gender)
    \/ \E p \in Items(grid[tab]) : ClickProductCard(p)
    \/ \E t \in {"clothing", "jewelry"} : SelectTab(t)
    \/ ClickHeaderLogo
    \/ \E to \in UrlPaths : OpenUrl(to)
    \/ \E genderFilter \in GenderFilters : CallGetProducts(genderFilter)
    \/ \E id \in UrlItemIds : CallGetProductById(id)

StoreSpec == StoreInit /\ [][StoreNext]_vars

(* ------------------------------------------------------------------ *)
(* _callImagen3WithSDK and getImageDetailsFromDataURI                  *)
(* ------------------------------------------------------------------ *)

\* a string that is handed over as a URI, by its parts: the scheme before
\* the first ':', and for a data URI the media type, whether ';base64,'
\* follows it, and the payload; text is the string as written
Uri(text, scheme, major, sub, base64, payload) ==
    [text |-> text, scheme |-> scheme, major |-> major, sub |-> sub,
     base64 |-> base64, payload |-> payload]

PngDataUri == Uri("data:image/png;base64,UFJTT04=", "data", "image", "png", TRUE, "UFJTT04=")
JpegDataUri == Uri("data:image/jpeg;base64,SVRFTQ==", "data", "image", "jpeg", TRUE, "SVRFTQ==")
SvgDataUri ==
    Uri("data:image/svg+xml;base64,PHN2Zz4=", "data", "image", "svg+xml", TRUE, "PHN2Zz4=")
TextDataUri == Uri("data:text/plain;base64,aGVsbG8=", "data", "text", "plain", TRUE, "aGVsbG8=")
PlainDataUri == Uri("data:image/png,rawbytes", "data", "image", "png", FALSE, "rawbytes")
HttpsUri ==
    Uri("https://images.unsplash.com/photo-1611312449412", "https", "", "", FALSE, "")
FtpUri == Uri("ftp://example.com/item.png", "ftp", "", "", FALSE, "")
EmptyUri == Uri("", "", "", "", FALSE, "")

\* the subtypes made of word characters only: \w+
WordSubtypes == {"png", "jpeg", "gif", "webp"}

\* a value of getImageDetailsFromDataURI or of the item-image fetch, and an
\* Error thrown by them
Details(mimeType, data) == [ok |-> TRUE, mimeType |-> mimeType, data |-> data, message |-> ""]
Thrown(message) == [ok |-> FALSE, mimeType |-> "", data |-> "", message |-> message]

\* dataUri.match(/^data:(image\/\w+);base64,(.*)$/)
getImageDetailsFromDataURI(dataUri) ==
    IF dataUri.text = ""
    THEN Thrown("Invalid input: dataUri must be a non-empty string.")
    ELSE IF /\ dataUri.scheme = "data"
            /\ dataUri.major = "image"
            /\ dataUri.sub \in WordSubtypes
            /\ dataUri.base64
         THEN Details(dataUri.major \o "/" \o dataUri.sub, dataUri.payload)
         ELSE Thrown("Invalid image data URI. Expected format: data:<mimetype>;base64,<encoded_data>")

\* what fetch(itemImageUri) can answer: an image, a page, no content type,
\* a status that is not ok, or a network error
FetchAnswers ==
    { [throws |-> FALSE, message |-> "", ok |-> TRUE, status |-> "200",
       contentType |-> Some([major |-> "image", text |-> "image/jpeg"]), body |-> "ITEM"],
      [throws |-> FALSE, message |-> "", ok |-> TRUE, status |-> "200",
       contentType |-> Some([major |-> "text", text |-> "text/html"]), body |-> "<html>"],
      [throws |-> FALSE, message |-> "", ok |-> TRUE, status |-> "200",
       contentType |-> Null, body |-> "ITEM"],
      [throws |-> FALSE, message |-> "", ok |-> FALSE, status |-> "404",
       contentType |-> Null, body |-> ""],
      [throws |-> TRUE, message |-> "fetch failed", ok |-> FALSE, status |-> "",
       contentType |-> Null, body |-> ""] }

\* Buffer.from(imageBuffer).toString('base64')
ToBase64(body) == "B64(" \o body \o ")"

\* the inner try of the http branch: the Error it throws, or the details
FetchedDetails(itemImageUri, answer) ==
    LET cause ==
            IF answer.throws THEN answer.message
            ELSE IF ~answer.ok
            THEN "Failed to fetch item image from " \o itemImageUri.text
                     \o ". Status: " \o answer.status
            ELSE IF answer.contentType = Null
            THEN "Invalid content type for item image: null. Expected an image."
            ELSE IF answer.contentType[1].major # "image"
            THEN "Invalid content type for item image: " \o answer.contentType[1].text
                     \o ". Expected an image."
            ELSE ""
    IN  IF cause # ""
        THEN Thrown("Failed to process item image from URL: " \o cause)
        ELSE Details(answer.contentType[1].text, ToBase64(answer.body))

\* finalItemImageDetails, by the form of itemImageUri
ItemDetails(itemImageUri, answer) ==
    IF itemImageUri.scheme = "data" THEN getImageDetailsFromDataURI(itemImageUri)
    ELSE IF itemImageUri.scheme \in {"http", "https"} THEN FetchedDetails(itemImageUri, answer)
    ELSE Thrown("Invalid item image URI format. Expected a data URI or an HTTP/S URL for SDK call.")

\* parts of a candidate: text, or inline data of a media type
TextPart(t) == [inlineData |-> Null, text |-> t]
InlinePart(major, sub, data) ==
    [inlineData |-> Some([major |-> major, mimeType |-> major \o "/" \o sub, data |-> data]),
     text |-> ""]

\* a candidate with content.parts, and one without content
Candidate(parts) == [content |-> Some([parts |-> parts])]
EmptyCandidate == [content |-> Null]

\* what model.generateContent can answer: an Error (the 404 the code
\* expects), or a response with its candidates (Null: no candidates field)
Answered(candidates) == [throws |-> FALSE, message |-> "", candidates |-> candidates]
GenerateContentAnswers ==
    { [throws |-> TRUE, message |-> "[404 Not Found] models/imagen-3.0-generate-002",
       candidates |-> Null],
      Answered(Null),
      Answered(Some(<<>>)),
      Answered(Some(<<EmptyCandidate>>)),
      Answered(Some(<<Candidate(<<TextPart("Here is the look.")>>)>>)),
      Answered(Some(<<Candidate(<<InlinePart("image", "png", "T1VU")>>)>>)),
      Answered(Some(<<Candidate(<<TextPart("Here is the look."),
                                 InlinePart("application", "json", "e30="),
                                 InlinePart("image", "png", "T1VU"),
                                 InlinePart("image", "jpeg", "T1VUMg==")>>)>>)),
      Answered(Some(<<Candidate(<<TextPart("No image here.")>>),
                      Candidate(<<InlinePart("image", "png", "TEFURVI=")>>)>>)),
      Answered(Some(<<EmptyCandidate,
                      Candidate(<<InlinePart("image", "png", "TEFURVI=")>>)>>)) }

\* the places of the image parts among the parts of response.candidates[0]
ImagePlaces(response) ==
    IF response.candidates = Null \/ Len(response.candidates[1]) = 0 THEN {}
    ELSE LET candidate == response.candidates[1][1]
         IN  IF candidate.content = Null THEN {}
             ELSE LET parts == candidate.content[1].parts
                  IN  {i \in 1..Len(parts) :
                          /\ parts[i].inlineData # Null
                          /\ parts[i].inlineData[1].major = "image"}

\* generatedImageDataUri after the loop over the parts: null, or the data
\* URI of the first image part
GeneratedImageDataUri(response) ==
    LET places == ImagePlaces(response)
    IN  IF places = {} THEN Null
        ELSE LET first == CHOOSE i \in places : \A j \in places : i <= j
                 part == response.candidates[1][1].content[1].parts[first]
             IN  Some("data:" \o part.inlineData[1].mimeType \o ";base64,"
                          \o part.inlineData[1].data)

ApiKeyMessage == "API key for Imagen is not configured."
NoImageDataSdkMessage ==
    "Imagen 3 SDK (generateContent) did not return image data in the expected format."
SdkWrappedMessage(cause) == "Failed to generate image with Imagen 3 SDK: " \o cause

\* _callImagen3WithSDK(userImageUri, itemImageUri), given the API key of the
\* process and the answers of fetch and of generateContent
callImagen3WithSDK(apiKey, userImageUri, itemImageUri, fetched, response) ==
    IF ~Truthy(apiKey) THEN Rejected(ApiKeyMessage)
    ELSE LET userImageDetails == getImageDetailsFromDataURI(userImageUri)
             finalItemImageDetails == ItemDetails(itemImageUri, fetched)
         IN  IF ~userImageDetails.ok
             THEN Rejected(SdkWrappedMessage(userImageDetails.message))
             ELSE IF ~finalItemImageDetails.ok
             THEN Rejected(SdkWrappedMessage(finalItemImageDetails.message))
             ELSE IF response.throws
             THEN Rejected(SdkWrappedMessage(response.message))
             ELSE IF GeneratedImageDataUri(response) = Null
             THEN Rejected(SdkWrappedMessage(NoImageDataSdkMessage))
             ELSE Resolved(GeneratedImageDataUri(response)[1])

\* the arguments the function is called with, and the API key it finds
UserImageUris == {PngDataUri, TextDataUri, SvgDataUri, EmptyUri}
ItemImageUris == {JpegDataUri, PlainDataUri, HttpsUri, FtpUri}
ApiKeys == {Null, Some(""), Some("AIza-key")}

\* a call of the function that has not returned yet
SdkInit ==
    /\ path = <<>>
    /\ page = "home"
    /\ grid = NoGrid
    /\ tab = "clothing"
    /\ product = Null
    /\ SessionInit
    /\ \E apiKey \in ApiKeys, userImageUri \in UserImageUris, itemImageUri \in ItemImageUris :
          /\ lastCall = Call("_callImagen3WithSDK",
                             Some([apiKey |-> apiKey, userImageUri |-> userImageUri,
                                   itemImageUri |-> itemImageUri]), Null)
          /\ lastEvent = Event("init", "")

\* fetch and generateContent answer, when they are called, and the function
\* returns or throws
Imagen3SdkSettles(fetched, response) ==
    /\ lastCall.fn = "_callImagen3WithSDK"
    /\ lastCall.result = Null
    /\ LET in == lastCall.arg[1]
       IN  lastCall' = [lastCall EXCEPT !.result =
                           Some(callImagen3WithSDK(in.apiKey, in.userImageUri,
                                                   in.itemImageUri, fetched, response))]
    /\ lastEvent' = EventWith("_callImagen3WithSDK", "",
                              Some([fetched |-> fetched, response |-> response]))
    /\ UNCHANGED <<path, page, grid, tab, product, sessionVars, widgetVars, callVars>>

SdkNext ==
    \E fetched \in FetchAnswers, response \in GenerateContentAnswers :
        Imagen3SdkSettles(fetched, response)

SdkSpec == SdkInit /\ [][SdkNext]_vars

(* ------------------------------------------------------------------ *)
(* Steps, as the properties below name them                           *)
(* ------------------------------------------------------------------ *)

\* the step is handleGenerateTryOn going past its check: a call is issued
GenerateAccepted == lastEvent' = Event("handleGenerateTryOn", "")
\* the step is handleGenerateTryOn returning at its check
GenerateRefused == lastEvent' = Event("handleGenerateTryOn", "Cannot Generate")
\* the step is handleValidateImage going past its check: a call is issued
ValidateAccepted == lastEvent' = Event("handleValidateImage", "")

\* the requests a step adds to, and takes from, the awaited generations
NewGenerations == generations' \ generations
SettledGenerations == generations \ generations'

(* ------------------------------------------------------------------ *)
(* C1                                                                 *)
(* ------------------------------------------------------------------ *)

\* C1: generateAiTryOn is invoked only in a state where userImage is
\* non-empty and validationResult.isValid is true; handleGenerateTryOn
\* entered in any other state issues no call (neither generateAiTryOn nor
\* a model call) and changes no session field.
C1_GenerateOnlyAfterValidation ==
    [][ /\ (generateCalls' # generateCalls \/ NewGenerations # {})
            => (Truthy(userImage) /\ IsValid(validationResult))
        /\ (lastEvent'.op = "handleGenerateTryOn"
              /\ ~(Truthy(userImage) /\ IsValid(validationResult)))
            => (GenerateRefused /\ UNCHANGED <<sessionVars, callVars>>) ]_vars

\* a call has been issued after a validation, and the handler has since
\* been entered without one and has refused
C1_Witness ==
    /\ generateCalls > 0
    /\ lastEvent = Event("handleGenerateTryOn", "Cannot Generate")
    /\ ~IsValid(validationResult)

(* ------------------------------------------------------------------ *)
(* C2                                                                 *)
(* ------------------------------------------------------------------ *)

\* the last step was a validation call returning a valid / an invalid verdict,
\* or throwing
ReturnedValid == lastEvent.op = "validateImageReturned" /\ lastEvent.toast = "Image Validated"
ReturnedInvalid ==
    lastEvent.op = "validateImageReturned" /\ lastEvent.toast = "Image Validation Failed"
ValidationThrew == lastEvent.op = "validateImageThrew"

\* C2 as stated: after a validation call completes with isValid = true the
\* Try-On action is enabled (isTryOnDisabled is false when no generation is
\* in flight); after one that completes with isValid = false, or fails, it is
\* disabled.
C2_Original ==
    /\ (ReturnedValid /\ ~isLoadingGeneration) => ~isTryOnDisabled
    /\ (ReturnedInvalid \/ ValidationThrew) => isTryOnDisabled

\* C2 as amended: after a validation call completes with isValid = true the
\* Try-On action is enabled when no generation is in flight and an image is
\* still uploaded (userImage non-empty); after one that completes with
\* isValid = false, or fails, it is disabled, and while the validation result
\* is not valid it becomes enabled only by a validation call returning
\* isValid = true.
C2_TryOnFollowsValidation ==
    [][ /\ (ReturnedValid' /\ ~isLoadingGeneration' /\ Truthy(userImage')) => ~isTryOnDisabled'
        /\ (ReturnedInvalid' \/ ValidationThrew') => isTryOnDisabled'
        /\ (~IsValid(validationResult) /\ isTryOnDisabled /\ ~isTryOnDisabled')
            => ReturnedValid' ]_vars

\* the second validation call of the session has returned a valid verdict
\* and Try-On is enabled
C2_Witness ==
    /\ ReturnedValid
    /\ lastEvent.arg = Some(2)
    /\ TryOnEnabled

(* ------------------------------------------------------------------ *)
(* C3                                                                 *)
(* ------------------------------------------------------------------ *)

\* C3 as stated: a validation call that fails leaves the session in the
\* state an invalid verdict leaves it in: a negative validation result, the
\* loading flag reset, and every other field, error included, as it was.
C3_Original ==
    [][ ValidationThrew' =>
            /\ validationResult' # Null
            /\ ~IsValid(validationResult')
            /\ ~isLoadingValidation'
            /\ UNCHANGED <<userImage, selectedModel, generatedImage, isLoadingGeneration, error>>
      ]_vars

\* C3 as amended: a validation call that fails is converted into the
\* synthetic negative result (isValid = false, generic reason and suggestion)
\* and, unlike an invalid verdict, also sets error to the failure's message;
\* an invalid verdict leaves error as it was. Both reset the loading flag,
\* leave Try-On disabled and leave the other session fields as they were.
C3_FailureBecomesNegativeResultAndError ==
    [][ /\ ValidationThrew' =>
              /\ validationResult' = Some(SyntheticNegativeResult)
              /\ Truthy(error')
              /\ error' \in {Some(o.message) : o \in {x \in ValidateImageOutcomes : x.throws}}
        /\ ReturnedInvalid' =>
              /\ validationResult' # Null
              /\ ~IsValid(validationResult')
              /\ error' = error
        /\ (ValidationThrew' \/ ReturnedInvalid') =>
              /\ ~isLoadingValidation'
              /\ isTryOnDisabled'
              /\ UNCHANGED <<userImage, selectedModel, generatedImage, isLoadingGeneration>>
      ]_vars

\* a validation call has failed: the synthetic result and the error are set
C3_Witness ==
    /\ ValidationThrew
    /\ validationResult = Some(SyntheticNegativeResult)
    /\ Truthy(error)

(* ------------------------------------------------------------------ *)
(* C4                                                                 *)
(* ------------------------------------------------------------------ *)

GenerationReturned == lastEvent.op = "generateAiTryOnReturned"
GenerationThrew == lastEvent.op = "generateAiTryOnThrew"

\* C4: when a generation call succeeds, generatedImage becomes exactly the
\* image reference that call returned (the url of the media ai.generate
\* answered that request with) and it is the one image shown; the previous
\* result is cleared when a new request starts; the session never holds more
\* than one generated image.
C4_ResultReplacesPrevious ==
    /\ [](Len(generatedImage) <= 1)
    /\ [][ /\ GenerationReturned' =>
                 /\ lastEvent'.arg # Null
                 /\ generatedImage' = Some(lastEvent'.arg[1].media[1].url[1])
                 /\ \E g \in SettledGenerations : generatedImage' = Some(GeneratedUrl(g.id))
                 /\ DisplayedResult' \in {generatedImage', Null}
           /\ GenerateAccepted => (generatedImage' = Null /\ DisplayedResult' = Null)
         ]_vars

\* the second generation of the session has succeeded and its image is shown
C4_Witness ==
    /\ GenerationReturned
    /\ generateCalls = 2
    /\ generatedImage = Some(GeneratedUrl(2))
    /\ DisplayedResult = generatedImage

(* ------------------------------------------------------------------ *)
(* C5                                                                 *)
(* ------------------------------------------------------------------ *)

\* C5: in the state reached when a failed generation call settles, error is
\* set (non-null, non-empty) and generatedImage is null.
C5_FailureLeavesNoImage ==
    GenerationThrew => (error # Null /\ Truthy(error) /\ generatedImage = Null)

\* the second generation of the session has failed
C5_Witness ==
    /\ GenerationThrew
    /\ generateCalls = 2
    /\ generations = {}

(* ------------------------------------------------------------------ *)
(* C6                                                                 *)
(* ------------------------------------------------------------------ *)

Dismissed == lastEvent.op = "tryAgain"
NoRequestInFlight == ~isLoadingValidation /\ ~isLoadingGeneration

\* C6 as stated: a failed validation or generation that settles with no
\* request in flight shows the error view, whose 'Try again' clears error
\* and leaves userImage, validationResult and selectedModel unchanged; after
\* it Validate is enabled, and Try-On too when the validation result is valid.
C6_Original ==
    [][ /\ ((ValidationThrew' \/ GenerationThrew') /\ NoRequestInFlight') => ErrorView'
        /\ Dismissed' =>
              /\ error' = Null
              /\ UNCHANGED <<userImage, validationResult, selectedModel>>
              /\ ValidateEnabled'
              /\ IsValid(validationResult') => TryOnEnabled'
      ]_vars

\* C6 as amended: the same, the retry being enabled provided an image is
\* still uploaded (userImage non-empty) when the error is dismissed.
C6_DismissKeepsSession ==
    [][ /\ ((ValidationThrew' \/ GenerationThrew') /\ NoRequestInFlight') => ErrorView'
        /\ Dismissed' =>
              /\ error' = Null
              /\ UNCHANGED <<userImage, validationResult, selectedModel>>
              /\ Truthy(userImage') => ValidateEnabled'
              /\ (Truthy(userImage') /\ IsValid(validationResult')) => TryOnEnabled'
      ]_vars

\* a failed generation has been dismissed: Validate and Try-On are enabled
C6_Witness ==
    /\ Dismissed
    /\ ValidateEnabled
    /\ TryOnEnabled

(* ------------------------------------------------------------------ *)
(* C7                                                                 *)
(* ------------------------------------------------------------------ *)

Count(b) == IF b THEN 1 ELSE 0

\* C7: each accepted Validate click issues exactly one validateImage call,
\* each accepted Try-On click exactly one generateAiTryOn call, and no other
\* step (a call settling, successfully or not, included) issues any; one
\* generateAiTryOn call makes at most one call to a model.
C7_NoRetries ==
    /\ [](aiGenerateCalls <= generateCalls)
    /\ [][ /\ validateCalls' = validateCalls + Count(ValidateAccepted)
           /\ Cardinality(validations' \ validations) = Count(ValidateAccepted)
           /\ generateCalls' = generateCalls + Count(GenerateAccepted)
           /\ Cardinality(NewGenerations) = Count(GenerateAccepted)
           /\ aiGenerateCalls' >= aiGenerateCalls
           /\ aiGenerateCalls' - aiGenerateCalls <= Count(GenerateAccepted)
         ]_vars

\* one validation and one generation were asked for, the model call of the
\* generation has thrown, and one call of each kind has been made
C7_Witness ==
    /\ GenerationThrew
    /\ lastEvent.arg # Null
    /\ lastEvent.arg[1].throws
    /\ validateCalls = 1
    /\ generateCalls = 1
    /\ aiGenerateCalls = 1

(* ------------------------------------------------------------------ *)
(* C8                                                                 *)
(* ------------------------------------------------------------------ *)

ImagenModels == {"imagen3", "imagen4"}

\* C8: with the flash selector, generateAiTryOn makes one ai.generate call
\* whose prompt is [user image, item image, instruction text] in that order,
\* with response modalities TEXT and IMAGE; generatedImage becomes media.url
\* when the answer carries media with a url, and the call fails (error set,
\* no image) when the media or its url is absent.
C8_FlashCall ==
    [][ /\ (GenerateAccepted /\ selectedModel = FlashModel) =>
              /\ aiGenerateCalls' = aiGenerateCalls + 1
              /\ NewGenerations # {}
              /\ \A g \in NewGenerations :
                    g.call = Some([model |-> FlashModelId,
                                   prompt |-> << [media |-> userImage[1]],
                                                 [media |-> product.imageUrl],
                                                 [text |-> TryOnPromptText] >>,
                                   responseModalities |-> <<"TEXT", "IMAGE">>])
        /\ ((GenerationReturned' \/ GenerationThrew') /\ lastEvent'.arg # Null) =>
              LET resp == lastEvent'.arg[1]
                  hasUrl == ~resp.throws /\ resp.media # Null /\ Truthy(resp.media[1].url)
              IN  IF hasUrl
                  THEN GenerationReturned' /\ generatedImage' = Some(resp.media[1].url[1])
                  ELSE GenerationThrew' /\ Truthy(error') /\ generatedImage' = Null
      ]_vars

\* a flash call has been answered with media and its url is the result
C8_Witness ==
    /\ GenerationReturned
    /\ lastEvent.arg # Null
    /\ generatedImage = Some(lastEvent.arg[1].media[1].url[1])
    /\ aiGenerateCalls >= 1

(* ------------------------------------------------------------------ *)
(* C9                                                                 *)
(* ------------------------------------------------------------------ *)

\* C9: with the selector imagen3 or imagen4, generateAiTryOn throws the
\* 'not supported' error naming the selector without calling any model, and
\* the session gets that error and no image: a generation that returns an
\* image was always asked of the flash selector.
C9_ImagenNotSupported ==
    [][ /\ (GenerateAccepted /\ selectedModel \in ImagenModels) =>
              /\ aiGenerateCalls' = aiGenerateCalls
              /\ NewGenerations # {}
              /\ \A g \in NewGenerations :
                    /\ g.call = Null
                    /\ g.outcome # Null
                    /\ ~g.outcome[1].ok
                    /\ g.outcome[1].message =
                          "The selected Imagen model (" \o selectedModel \o ") is not supported for this virtual try-on task with the current SDK method (generateContent). Please use Gemini Flash instead."
        /\ \A g \in SettledGenerations :
              g.input.model \in ImagenModels =>
                 /\ GenerationThrew'
                 /\ error' = Some(ImagenNotSupportedMessage(g.input.model))
                 /\ generatedImage' = Null
                 /\ aiGenerateCalls' = aiGenerateCalls
        /\ GenerationReturned' => \A g \in SettledGenerations : g.input.model = FlashModel
      ]_vars

\* a generation asked of imagen4 has failed with the error naming it, and
\* no model was ever called
C9_Witness ==
    /\ GenerationThrew
    /\ error = Some(ImagenNotSupportedMessage("imagen4"))
    /\ aiGenerateCalls = 0
    /\ generatedImage = Null

(* ------------------------------------------------------------------ *)
(* C10                                                                *)
(* ------------------------------------------------------------------ *)

\* C10: an answer of ai.generate without an image and a thrown ai.generate
\* call end the same way: generateAiTryOn throws an Error whose message is
\* 'Failed to generate image with <model id>: <cause>', and the session has
\* that message as error, generatedImage null and isLoadingGeneration false,
\* its other fields as they were.
C10_NoImageLikeTransportFailure ==
    [][ (GenerationThrew' /\ lastEvent'.arg # Null) =>
            LET resp == lastEvent'.arg[1]
                cause == IF resp.throws THEN resp.message ELSE NoImageDataMessage
            IN  /\ error' = Some("Failed to generate image with " \o FlashModelId
                                 \o ": " \o cause)
                /\ generatedImage' = Null
                /\ ~isLoadingGeneration'
                /\ lastEvent'.toast = "Generation Error"
                /\ UNCHANGED <<userImage, validationResult, selectedModel, isLoadingValidation>>
      ]_vars

\* ai.generate has answered with text only: the wrapped error is set
C10_Witness ==
    /\ GenerationThrew
    /\ lastEvent.arg # Null
    /\ ~lastEvent.arg[1].throws
    /\ lastEvent.arg[1].media = Null
    /\ error = Some(WrappedMessage(NoImageDataMessage))
    /\ generatedImage = Null
    /\ ~isLoadingGeneration

(* ------------------------------------------------------------------ *)
(* C11                                                                *)
(* ------------------------------------------------------------------ *)

\* C11 as stated: the generation boundary reaches its external services
\* through two client SDKs: a request of the flash selector goes through
\* ai.generate, a request of imagen3 or imagen4 through the second SDK's
\* content-generation call.
C11_Original ==
    \A g \in generations :
        /\ g.input.model = FlashModel => g.client = GenkitClient
        /\ g.input.model \in ImagenModels => g.client = SecondSdkClient

\* C11 as amended: a request of the flash selector goes through ai.generate
\* (one call issued), and a request of imagen3 or imagen4 reaches no
\* external service at all: it has thrown 'not supported' without a call of
\* the second SDK, whose content-generation call is never made.
C11_OnlyFlashReachesAService ==
    \A g \in generations :
        /\ g.client # SecondSdkClient
        /\ g.input.model = FlashModel =>
              (g.client = GenkitClient /\ g.call # Null /\ g.call[1].model = FlashModelId)
        /\ g.input.model \in ImagenModels =>
              (g.client = NoClient /\ g.call = Null /\ g.stage = "thrown")

\* a request of imagen3 is awaited after a request of the flash selector
\* has gone through ai.generate
C11_Witness ==
    /\ aiGenerateCalls = 1
    /\ \E g \in generations : g.input.model = "imagen3" /\ g.client = NoClient

(* ------------------------------------------------------------------ *)
(* C12                                                                *)
(* ------------------------------------------------------------------ *)

\* the places of the catalog whose item a filter asks for, and the place
\* that is the k-th of them
Wanted(genderFilter) ==
    {i \in 1..Len(products) :
        \/ genderFilter = Null
        \/ genderFilter = Some("all")
        \/ products[i].gender = genderFilter[1]
        \/ products[i].gender = "unisex"}
Nth(places, k) == CHOOSE i \in places : Cardinality({j \in places : j <= i}) = k

\* C12: for the filters 'men', 'women', 'all' and absent, getProducts
\* returns every catalog item tagged with that audience plus every item
\* tagged 'unisex' (every item for 'all' or absent) and nothing else, in
\* catalog order, with no duplicates.
C12_GetProductsByAudience ==
    (lastCall.fn = "getProducts" /\ lastCall.arg \in GenderFilters) =>
        LET places == Wanted(lastCall.arg)
            result == lastCall.result
        IN  /\ Len(result) = Cardinality(places)
            /\ \A k \in 1..Len(result) : result[k] = products[Nth(places, k)]
            /\ \A k, l \in 1..Len(result) : result[k].id = result[l].id => k = l
            /\ lastCall.arg \in {Null, Some("all")} => result = products

\* getProducts('women') has returned the five items for women and the two
\* for everyone, which come last
C12_Witness ==
    /\ lastCall.fn = "getProducts"
    /\ lastCall.arg = Some("women")
    /\ Len(lastCall.result) = 7
    /\ lastCall.result[1].id = "w-cloth-1"
    /\ lastCall.result[7].id = "u-jewel-1"

(* ------------------------------------------------------------------ *)
(* C13                                                                *)
(* ------------------------------------------------------------------ *)

\* C13: getProductById returns, for an id of the catalog, the one item with
\* that id, and undefined for an id that is not in the catalog, such as
\* 'does-not-exist'; it never returns an item with another id.
C13_GetProductByIdFindsTheItem ==
    lastCall.fn = "getProductById" =>
        LET id == lastCall.arg[1]
            holders == {i \in 1..Len(products) : products[i].id = id}
        IN  /\ id = "does-not-exist" => lastCall.result = Null
            /\ IF holders = {}
               THEN lastCall.result = Null
               ELSE /\ lastCall.result # Null
                    /\ lastCall.result[1].id = id
                    /\ Cardinality(holders) = 1
                    /\ \A i \in holders : lastCall.result[1] = products[i]

\* getProductById('does-not-exist') has returned undefined and the try-on
\* page has answered notFound()
C13_Witness ==
    /\ lastCall = Call("getProductById", Some("does-not-exist"), Null)
    /\ page = "notFound"

(* ------------------------------------------------------------------ *)
(* C14                                                                *)
(* ------------------------------------------------------------------ *)

\* everything the pages and the callers hold of the catalog
HeldItems ==
    Items(grid.clothing) \cup Items(grid.jewelry) \cup Items(lastCall.result)
        \cup (IF product = Null THEN {} ELSE {product})

\* C14: no two entries of the catalog share an id, in every state: no
\* operation adds, removes or changes a catalog entry, so that every item a
\* page or a caller holds is an entry of the catalog and is the only entry
\* with its id.
C14_ItemIdsUnique ==
    /\ \A i, j \in 1..Len(products) : products[i].id = products[j].id => i = j
    /\ Len(products) = 12
    /\ \A held \in HeldItems :
          /\ \E i \in 1..Len(products) : products[i] = held
          /\ Cardinality({i \in 1..Len(products) : products[i].id = held.id}) = 1

\* the whole collection has been listed and one of its items opened
C14_Witness ==
    /\ lastEvent.op = "clickProductCard"
    /\ path[1] = "all"
    /\ page = "tryOn"
    /\ product \in HeldItems
    /\ lastCall.fn = "getProductById"

(* ------------------------------------------------------------------ *)
(* C15                                                                *)
(* ------------------------------------------------------------------ *)

\* the step is handleFileChange run on a chosen file, and that file
Picked == lastEvent'.op = "handleFileChange"
PickedFile == lastEvent'.arg[1]

\* C15: a chosen file larger than 5 * 1024 * 1024 bytes, whatever its media
\* type, is refused with the message 'File too large' and onImageUpload is
\* not invoked, at once (the session and the widget are as they were) or
\* later (no read of it is started, and no read of such a file is ever
\* awaited); a file of exactly that size is not refused for its size, and is
\* read when it is an image.
C15_OversizeRejected ==
    /\ [](\A r \in pendingReads : r.file.size <= 5 * 1024 * 1024)
    /\ [][ Picked =>
             /\ PickedFile.size > 5 * 1024 * 1024 =>
                   /\ lastEvent'.toast = "File too large"
                   /\ UNCHANGED <<sessionVars, previewUrl, fileName, pendingReads>>
             /\ PickedFile.size = 5 * 1024 * 1024 =>
                   /\ lastEvent'.toast # "File too large"
                   /\ PickedFile.type.major = "image" =>
                         [file |-> PickedFile, mounted |-> TRUE] \in pendingReads'
         ]_vars

\* an image was uploaded and validated, then a document over the ceiling
\* was chosen and refused: the session still has the image and its verdict
C15_Witness ==
    /\ lastEvent.op = "handleFileChange"
    /\ lastEvent.toast = "File too large"
    /\ lastEvent.arg[1].type = PdfType
    /\ Truthy(userImage)
    /\ IsValid(validationResult)

(* ------------------------------------------------------------------ *)
(* C16                                                                *)
(* ------------------------------------------------------------------ *)

\* C16: a chosen file whose media type does not start with 'image/' is
\* refused with a message ('Invalid file type' when its size passes) and
\* onImageUpload is not invoked (no read of it is started, and no read of
\* such a file is ever awaited); the widget's preview and file name and the
\* session's userImage, validationResult and generatedImage are as they were.
C16_NonImageRejected ==
    /\ [](\A r \in pendingReads : r.file.type.major = "image")
    /\ [][ (Picked /\ PickedFile.type.major # "image") =>
             /\ lastEvent'.toast \in {"File too large", "Invalid file type"}
             /\ PickedFile.size <= 5 * 1024 * 1024 => lastEvent'.toast = "Invalid file type"
             /\ UNCHANGED <<previewUrl, fileName, pendingReads,
                            userImage, validationResult, generatedImage>>
         ]_vars

\* a try-on image was generated, then a document was chosen and refused:
\* the preview, the verdict and the generated image are still there
C16_Witness ==
    /\ lastEvent.op = "handleFileChange"
    /\ lastEvent.toast = "Invalid file type"
    /\ previewUrl # Null
    /\ IsValid(validationResult)
    /\ generatedImage # Null

(* ------------------------------------------------------------------ *)
(* C17                                                                *)
(* ------------------------------------------------------------------ *)

\* C17: handleRemoveImage clears the widget's preview and file name, resets
\* the value of the file input and notifies the session with the empty
\* image: after it userImage is '' and validationResult and generatedImage
\* are null; and while no image is uploaded Try-On is disabled and Validate
\* is not available: they change only when a file read hands over a new image.
C17_RemovalClearsAndDisables ==
    [][ /\ lastEvent'.op = "handleRemoveImage" =>
              /\ previewUrl' = Null
              /\ fileName' = Null
              /\ fileInputValue' = ""
              /\ userImage' = Some("")
              /\ validationResult' = Null
              /\ generatedImage' = Null
              /\ isTryOnDisabled'
              /\ ~TryOnEnabled'
              /\ ~ValidateEnabled'
        /\ (~Truthy(userImage) /\ (Truthy(userImage') \/ TryOnEnabled' \/ ValidateEnabled')) =>
              /\ lastEvent'.op = "onloadend"
              /\ Truthy(userImage')
              /\ validationResult' = Null
      ]_vars

\* a try-on image had been generated when the user removed the image: the
\* input is empty again, nothing is left of the results, and the validation
\* asked for a second time is still awaited
C17_Witness ==
    /\ lastEvent.op = "handleRemoveImage"
    /\ fileInputValue = ""
    /\ userImage = Some("")
    /\ generateCalls > 0
    /\ validations # {}
    /\ ~TryOnEnabled
    /\ ~ValidateEnabled

(* ------------------------------------------------------------------ *)
(* C18                                                                *)
(* ------------------------------------------------------------------ *)

\* the items of the catalog tagged 'women' or 'unisex'
ForWomen == {products[i] : i \in {j \in 1..Len(products) : products[j].gender \in {"women", "unisex"}}}

\* the cards of the two tabs of the collection page
GridItems(g) == Items(g.clothing) \cup Items(g.jewelry)

\* C18: choosing 'women' on the chooser leads to the collection page
\* /women, whose two tabs together show the items tagged 'women' or
\* 'unisex', all of them, each once, and no other; clicking a card shown
\* there leads to the try-on page /women/<id of the card's item>, whose
\* product is that item: its name, description and price.
C18_WomenJourney ==
    /\ []((page = "collection" /\ path = <<"women">>) =>
             /\ GridItems(grid) = ForWomen
             /\ Len(grid.clothing) + Len(grid.jewelry) = Cardinality(ForWomen))
    /\ [][ /\ (lastEvent'.op = "handleSelectGender" /\ lastEvent'.arg = Some("women")) =>
                 /\ page' = "collection"
                 /\ path' = <<"women">>
                 /\ GridItems(grid') = ForWomen
           /\ (lastEvent'.op = "clickProductCard" /\ path = <<"women">>) =>
                 LET card == lastEvent'.arg[1]
                 IN  /\ card \in GridItems(grid)
                     /\ path' = <<"women", card.id>>
                     /\ page' = "tryOn"
                     /\ product' # Null
                     /\ product'.id = card.id
                     /\ product'.name = card.name
                     /\ product'.description = card.description
                     /\ product'.price = card.price
         ]_vars

\* from the chooser through /women and its jewelry tab to the try-on page
\* of the necklace for everyone
C18_Witness ==
    /\ lastEvent.op = "clickProductCard"
    /\ path = <<"women", "u-jewel-1">>
    /\ page = "tryOn"
    /\ product.name = "Leather Cord Necklace"
    /\ product.description = "Simple leather cord necklace for a casual style."
    /\ product.price = "$30.00"

(* ------------------------------------------------------------------ *)
(* C19                                                                *)
(* ------------------------------------------------------------------ *)

\* the step calls onImageUpload: a file read ends, or the image is removed
Uploaded == lastEvent'.op \in {"onloadend", "onloadendFailed", "handleRemoveImage"}

\* C19: every call of handleImageUpload sets userImage to the image handed
\* over (the data URL of the file read, null when the read failed, '' on a
\* removal) and validationResult and generatedImage to null, and leaves
\* selectedModel, error, isLoadingValidation and isLoadingGeneration as they
\* were; right after it Try-On is disabled.
C19_UploadDiscardsResults ==
    [][ Uploaded =>
          /\ validationResult' = Null
          /\ generatedImage' = Null
          /\ UNCHANGED <<selectedModel, error, isLoadingValidation, isLoadingGeneration>>
          /\ isTryOnDisabled'
          /\ ~TryOnEnabled'
          /\ lastEvent'.op = "onloadend" =>
                /\ Truthy(userImage')
                /\ \E r \in pendingReads \ pendingReads' :
                      userImage' = Some("data:image/png;base64,B64-" \o r.file.name)
          /\ lastEvent'.op = "onloadendFailed" => userImage' = Null
          /\ lastEvent'.op = "handleRemoveImage" => userImage' = Some("")
      ]_vars

\* the second image arrives while the try-on of the first is being
\* generated: the verdict is gone and the request is still in flight
C19_Witness ==
    /\ lastEvent.op = "onloadend"
    /\ isLoadingGeneration
    /\ generations # {}
    /\ \E g \in generations : Some(g.input.userImage) # userImage
    /\ validationResult = Null
    /\ generatedImage = Null
    /\ isTryOnDisabled

(* ------------------------------------------------------------------ *)
(* C20                                                                *)
(* ------------------------------------------------------------------ *)

\* the validation calls a step takes from the awaited ones
SettledValidations == validations \ validations'

\* C20: a valid validation result held together with an uploaded image was
\* produced by validating that image: when a call's verdict isValid = true
\* is stored while an image is uploaded, the call was made for the image
\* that is uploaded now, also when a new image was uploaded while the call
\* was in flight; and as long as the verdict is kept, the image stays.
C20_ValidResultBelongsToCurrentImage ==
    [][ /\ (lastEvent'.op = "validateImageReturned"
              /\ IsValid(validationResult') /\ Truthy(userImage')) =>
                 \A v \in SettledValidations : v.photoDataUri = userImage'[1]
        /\ (lastEvent'.op # "validateImageReturned"
              /\ IsValid(validationResult) /\ IsValid(validationResult')) =>
                 userImage' = userImage
      ]_vars

(* ------------------------------------------------------------------ *)
(* C21                                                                *)
(* ------------------------------------------------------------------ *)

\* C21: a generated image held by the session was generated from the image
\* that is uploaded now: when a generation call returns and its image is
\* stored, the call was made with the current userImage, also when the
\* image was replaced or removed while the call was in flight; and as long
\* as the generated image is kept, the uploaded image stays.
C21_GeneratedImageOfCurrentImage ==
    [][ /\ GenerationReturned' =>
              \A g \in SettledGenerations : userImage' = Some(g.input.userImage)
        /\ (~GenerationReturned' /\ generatedImage # Null /\ generatedImage' # Null) =>
              userImage' = userImage
      ]_vars

(* ------------------------------------------------------------------ *)
(* C22                                                                *)
(* ------------------------------------------------------------------ *)

\* C22: at most one validateImage call and at most one generateAiTryOn call
\* are awaited at any time: while isLoadingValidation is true Validate is
\* not available, while isLoadingGeneration is true Try-On is not, and a
\* call of a kind is awaited only while the flag of that kind is true.
C22_OneRequestOfAKind ==
    /\ Cardinality(validations) <= 1
    /\ Cardinality(generations) <= 1
    /\ isLoadingValidation => ~ValidateEnabled
    /\ isLoadingGeneration => ~TryOnEnabled
    /\ validations # {} => isLoadingValidation
    /\ generations # {} => isLoadingGeneration

\* the second validation of the session was asked for while the second
\* generation is awaited: one call of each kind is in flight
C22_Witness ==
    /\ lastEvent = Event("handleValidateImage", "")
    /\ validateCalls = 2
    /\ generateCalls = 2
    /\ Cardinality(validations) = 1
    /\ Cardinality(generations) = 1

(* ------------------------------------------------------------------ *)
(* The session when every awaited call is answered                    *)
(* ------------------------------------------------------------------ *)

\* an awaited validateImage call returns or throws
ValidateImageAnswers ==
    \E v \in validations, outcome \in ValidateImageOutcomes : ValidationSettles(v, outcome)

\* an awaited generateAiTryOn call returns or throws
GenerateAiTryOnAnswers ==
    \/ \E g \in generations : \E resp \in AiGenerateResponses(g.id) : AiGenerateAnswers(g, resp)
    \/ \E g \in generations : GenerateAiTryOnThrew(g)

\* the one file the user of this session picks: an image that is accepted
LiveFiles == {file \in Files : file.name = "photo1.png"}

\* validateImage calls issued in such a session: enough for a validation
\* to be started after an earlier one has failed during a generation
MaxRevalidations == 3

LiveNext ==
    \/ \E file \in LiveFiles : HandleFileChange(file)
    \/ \E r \in pendingReads, loaded \in BOOLEAN : ReadCompletes(r, loaded)
    \/ HandleRemoveImage
    \/ ClickValidateWithin(MaxRevalidations)
    \/ ValidateImageAnswers
    \/ ClickTryOn
    \/ CallTryOnUnvalidated
    \/ GenerateAiTryOnAnswers
    \/ DismissError
    \/ \E m \in ModelIds : SelectModel(m)

\* the session with one file and a third validation
OneFileSpec == Init /\ [][LiveNext]_vars

\* every promise the handlers await is settled in the end
FairSpec ==
    /\ Init
    /\ [][LiveNext]_vars
    /\ WF_vars(ValidateImageAnswers)
    /\ WF_vars(GenerateAiTryOnAnswers)

(* ------------------------------------------------------------------ *)
(* C23                                                                *)
(* ------------------------------------------------------------------ *)

\* the step is the continuation of handleValidateImage / handleGenerateTryOn
ValidationSettled == lastEvent.op \in {"validateImageReturned", "validateImageThrew"}
GenerationSettled == lastEvent.op \in {"generateAiTryOnReturned", "generateAiTryOnThrew"}

\* C23: every validation and every generation that is started leaves the
\* loading state once its external call has returned or failed: the step in
\* which a call settles resets the flag of its kind, on success and on
\* failure alike, a flag is true exactly while a call of its kind is
\* awaited, and a flag that is true becomes false again.
C23_LoadingEnds ==
    /\ [](isLoadingValidation <=> validations # {})
    /\ [](isLoadingGeneration <=> generations # {})
    /\ [][ /\ ValidationSettled' => (isLoadingValidation /\ ~isLoadingValidation')
           /\ GenerationSettled' => (isLoadingGeneration /\ ~isLoadingGeneration')
           /\ (isLoadingValidation /\ ~isLoadingValidation') => ValidationSettled'
           /\ (isLoadingGeneration /\ ~isLoadingGeneration') => GenerationSettled'
         ]_vars
    /\ isLoadingValidation ~> ~isLoadingValidation
    /\ isLoadingGeneration ~> ~isLoadingGeneration

\* the generation has failed while the second validation is still awaited:
\* its flag is reset, the other one is still set
C23_Witness ==
    /\ lastEvent.op = "generateAiTryOnThrew"
    /\ ~isLoadingGeneration
    /\ isLoadingValidation
    /\ validateCalls = 2

(* ------------------------------------------------------------------ *)
(* C24                                                                *)
(* ------------------------------------------------------------------ *)

\* C24: whenever the session holds a generated image (generatedImage
\* non-null), its validation result is valid and no error is set, also
\* when a validation was started while the generation was in flight.
C24_GeneratedImageImpliesValid ==
    generatedImage # Null => (IsValid(validationResult) /\ error = Null)

(* ------------------------------------------------------------------ *)
(* C25                                                                *)
(* ------------------------------------------------------------------ *)

\* C25: selectedModel is always one of the three selectors the dispatch
\* accepts, 'googleai/gemini-2.0-flash' at first, so no request takes the
\* dispatch's 'unknown model' branch; the selection changes only in a step
\* of the ModelSelector taken while the validation result is valid, an
\* image is uploaded and no generation is awaited, so that the model a
\* request was sent with is the selected one as long as the request is
\* awaited.
C25_SelectedModelStable ==
    /\ selectedModel = "googleai/gemini-2.0-flash"
    /\ [](selectedModel \in {"googleai/gemini-2.0-flash", "imagen3", "imagen4"})
    /\ [](\A g \in generations :
             /\ g.input.model = selectedModel
             /\ Dispatch(g.input.model) # "unknown"
             /\ g.outcome # Null => g.outcome[1].message # UnknownModelMessage(g.input.model))
    /\ [][ selectedModel' # selectedModel =>
             /\ lastEvent'.op = "onModelChange"
             /\ IsValid(validationResult)
             /\ Truthy(userImage)
             /\ ~isLoadingGeneration
             /\ generations = {}
         ]_vars

\* imagen4 was chosen after a first request, and the second request, sent
\* with it, is awaited
C25_Witness ==
    /\ selectedModel = "imagen4"
    /\ generateCalls = 2
    /\ \E g \in generations : g.id = 2 /\ g.input.model = "imagen4"

(* ------------------------------------------------------------------ *)
(* C26                                                                *)
(* ------------------------------------------------------------------ *)

\* the widget right after a removal: nothing chosen, nothing shown, and
\* the session told that there is no image
Removed == fileName = Null /\ previewUrl = Null /\ userImage = Some("")

\* C26: when files are picked in quick succession, once no read is pending
\* the preview and the image handed to the session last are those of the
\* file picked last, the one named in fileName, in whatever order the reads
\* have ended; and after a removal, until another file is picked, a read
\* that ends does not bring an image back.
C26_LastPickedFileWins ==
    /\ []((pendingReads = {} /\ fileName # Null /\ previewUrl # Null) =>
             /\ previewUrl = Some("data:image/png;base64,B64-" \o fileName[1])
             /\ userImage = previewUrl)
    /\ [][ (Removed /\ lastEvent'.op # "handleFileChange") =>
              (previewUrl' = Null /\ ~Truthy(userImage')) ]_vars

(* ------------------------------------------------------------------ *)
(* C27                                                                *)
(* ------------------------------------------------------------------ *)

\* C27: whenever the upload widget is displayed and no file read is
\* pending, its previewUrl is non-null exactly when the session's userImage
\* is non-empty, and then the two are the same image, so that the remove
\* control is there whenever an image is uploaded; also after the error
\* view has replaced the page and has been dismissed.
C27_WidgetAgreesWithSession ==
    (~ErrorView /\ pendingReads = {}) =>
        /\ previewUrl # Null <=> Truthy(userImage)
        /\ previewUrl # Null => previewUrl = userImage

(* ------------------------------------------------------------------ *)
(* C28                                                                *)
(* ------------------------------------------------------------------ *)

\* the steps a user triggers on the try-on page proper
PageSteps ==
    {"handleFileChange", "handleRemoveImage", "handleValidateImage",
     "onModelChange", "handleGenerateTryOn"}

\* C28: a validation or a generation that starts clears the error; the
\* error view is shown exactly when error is set and neither loading flag
\* is; and while it is shown the user can only 'Try again': no file is
\* picked or removed, no Validate, no model change and no Try-On happens,
\* and no call is issued.
C28_ErrorViewOnlyTryAgain ==
    /\ [](ErrorView <=> (error # Null /\ ~isLoadingValidation /\ ~isLoadingGeneration))
    /\ []((isLoadingValidation \/ isLoadingGeneration) => ~ErrorView)
    /\ [][ /\ (ValidateAccepted \/ GenerateAccepted) => error' = Null
           /\ ErrorView =>
                 /\ lastEvent'.op \notin PageSteps
                 /\ lastEvent'.op \in {"tryAgain", "onloadend", "onloadendFailed"}
                 /\ UNCHANGED <<callVars, selectedModel, fileName, fileInputValue>>
                 /\ ENABLED DismissError
         ]_vars

\* the second validation has failed while a generation is awaited, so that
\* its error is set and not shown, and a third validation has been started:
\* the error is cleared
C28_Witness ==
    /\ lastEvent = Event("handleValidateImage", "")
    /\ validateCalls = 3
    /\ isLoadingGeneration
    /\ error = Null

(* ------------------------------------------------------------------ *)
(* C29                                                                *)
(* ------------------------------------------------------------------ *)

\* the item of the catalog a path /<audience>/<itemId> may show: the one
\* with that id, if it is for that audience
ShownAt(audience, itemId) ==
    {products[i] : i \in {j \in 1..Len(products) :
        /\ products[j].id = itemId
        /\ \/ audience = "all"
           \/ products[j].gender = audience
           \/ products[j].gender = "unisex"}}

\* C29: at a path /<audience>/<itemId> the try-on page is rendered, with
\* its item, only if the id is in the catalog and the item is for that
\* audience (its tag is the audience or 'unisex', or the audience is
\* 'all'); at every other such path the answer is not-found, no item is
\* held and no try-on session runs, so no call is issued.
C29_TryOnPageOnlyForAudience ==
    Len(path) = 2 =>
        IF ShownAt(path[1], path[2]) # {}
        THEN page = "tryOn" /\ product \in ShownAt(path[1], path[2])
        ELSE /\ page = "notFound"
             /\ product = Null
             /\ ~GenerateGuard
             /\ validations = {} /\ generations = {}

(* ------------------------------------------------------------------ *)
(* C30                                                                *)
(* ------------------------------------------------------------------ *)

\* the causes a failure inside the call can have: the two data-URI errors,
\* the item-image errors, the error of generateContent, the missing image
SdkFailureCauses ==
    { "Invalid input: dataUri must be a non-empty string.",
      "Invalid image data URI. Expected format: data:<mimetype>;base64,<encoded_data>",
      "Invalid item image URI format. Expected a data URI or an HTTP/S URL for SDK call.",
      "Failed to process item image from URL: fetch failed",
      "Failed to process item image from URL: Failed to fetch item image from https://images.unsplash.com/photo-1611312449412. Status: 404",
      "Failed to process item image from URL: Invalid content type for item image: null. Expected an image.",
      "Failed to process item image from URL: Invalid content type for item image: text/html. Expected an image.",
      "[404 Not Found] models/imagen-3.0-generate-002",
      "Imagen 3 SDK (generateContent) did not return image data in the expected format." }

\* the image parts of the first candidate of a response, in their order
FirstCandidateImages(response) ==
    IF response.throws \/ response.candidates = Null THEN <<>>
    ELSE IF Len(response.candidates[1]) = 0 THEN <<>>
    ELSE IF response.candidates[1][1].content = Null THEN <<>>
    ELSE SelectSeq(response.candidates[1][1].content[1].parts,
                   LAMBDA part : part.inlineData # Null /\ part.inlineData[1].major = "image")

\* C30: _callImagen3WithSDK returns the first part with inline image data
\* among the parts of the first candidate, as the data URI
\* 'data:<mimeType>;base64,<data>'; it fails when the response has no
\* candidates or the first candidate has no image part, even if a later
\* candidate has one; and every failure raised inside the call is thrown
\* as 'Failed to generate image with Imagen 3 SDK: <cause>'.
C30_FirstImagePartOrWrappedFailure ==
    (lastCall.fn = "_callImagen3WithSDK" /\ lastCall.result # Null) =>
        LET out == lastCall.result[1]
            images == FirstCandidateImages(lastEvent.arg[1].response)
        IN  /\ out.ok =>
                  /\ Len(images) > 0
                  /\ out.generatedImage =
                        "data:" \o images[1].inlineData[1].mimeType \o ";base64,"
                                \o images[1].inlineData[1].data
            /\ Len(images) = 0 => ~out.ok
            /\ ~out.ok =>
                  out.message \in
                     {"Failed to generate image with Imagen 3 SDK: " \o cause :
                         cause \in SdkFailureCauses}

====
